---- MODULE Spec2Model ----
(***************************************************************************)
(* Model of package vllm: the Client adapter over an OpenAI-compatible     *)
(* transport (newOpenAIClient, Chat, ChatStream) and the streamWrapper      *)
(* cursor (Recv, Close).                                                    *)
(*                                                                          *)
(* Go values are modelled as follows.  A pointer is a sequence of length    *)
(* 0 (nil) or 1 (the pointee).  An error is the sequence of the messages    *)
(* of its Unwrap chain, outermost first; the nil error is <<>>.  Strings    *)
(* are TLA+ strings and + is \o.                                            *)
(***************************************************************************)
EXTENDS Integers, Sequences, FiniteSets, TLC

VARIABLES
    c,            \* the Client: BaseURL, Model, APIKey, oa
    builds,       \* number of openai.NewClientWithConfig calls made by newOpenAIClient
    validations,  \* number of times the field validation of newOpenAIClient ran
    invocations,  \* number of Chat / ChatStream invocations started
    ncalls,       \* number of requests handed to the transport
    request,      \* the ChatRequest of the last invocation, as the call left it
    sent,         \* the last request handed to the transport
    answer,       \* what the transport replied to that request
    ret,          \* what the last completed Chat / ChatStream returned
    streams,      \* the streamWrappers returned so far, with their underlying cursor
    g             \* the goroutines inside Chat / ChatStream (concurrent specification)

vars == <<c, builds, validations, invocations, ncalls, request, sent, answer, ret, streams, g>>

(***************************************************************************)
(* Bounds of the model.                                                     *)
(***************************************************************************)
MaxCalls   == 3   \* Chat / ChatStream invocations in one behaviour
MaxStreams == 2   \* cursors opened in one behaviour
MaxPulls   == 3   \* Recv calls in one behaviour, over all cursors
MaxCloses  == 2   \* Close calls in one behaviour, over all cursors

Procs == {1, 2}   \* goroutines sharing the Client

(***************************************************************************)
(* Values.                                                                  *)
(***************************************************************************)
Nil    == <<>>
NilErr == <<>>
EOF    == <<"EOF">>                       \* io.EOF

Errorf(prefix, cause) == <<prefix \o cause[1]>> \o cause   \* fmt.Errorf(prefix + "%w", cause)
Unwrap(err) == Tail(err)

ErrBaseURLEmpty == <<"vllm.Client.BaseURL is empty">>
ErrModelEmpty   == <<"vllm.Client.Model is empty">>
ErrNoChoices    == <<"vllm: no choices in response">>
ChatErrPrefix   == "vllm chat error: "
StreamErrPrefix == "vllm stream error: "

RoleUser      == "user"
RoleAssistant == "assistant"

BaseURLs == {"", "http://localhost:8001", "http://vllm:8000"}
Models   == {"", "mistral"}
APIKeys  == {"", "dummy"}

Message(role, content) == [Role |-> role, Content |-> content]

\* Requests the caller passes: ordered message sequences, the empty one included.
Requests == {<<>>,
             <<Message(RoleUser, "hi")>>,
             <<Message(RoleAssistant, ""), Message(RoleUser, "hi")>>,
             <<Message(RoleUser, "hi"), Message(RoleAssistant, "")>>}

\* What the transport can report.
TransportErrs == {<<"status 500">>}
ReadErrs      == {<<"connection reset">>, <<"read body: EOF", "EOF">>}

Choices(messages) == [i \in 1..Len(messages) |-> [Message |-> messages[i]]]
ChoiceLists ==
    {Choices(<<>>),
     Choices(<<Message(RoleAssistant, "hello from vllm")>>),
     Choices(<<Message(RoleAssistant, "hello from vllm"), Message(RoleUser, "")>>),
     Choices(<<Message(RoleUser, ""), Message(RoleAssistant, "hello from vllm")>>)}

\* Replies of CreateChatCompletion: (response, error).
ChatReplies == {[resp |-> [Choices |-> ch], err |-> NilErr] : ch \in ChoiceLists}
          \cup {[resp |-> [Choices |-> <<>>], err |-> e] : e \in TransportErrs}

\* Replies of CreateChatCompletionStream: (stream, error); the stream itself
\* is modelled where the wrapper holds it.
OpenReplies == {[resp |-> [Choices |-> <<>>], err |-> NilErr]}
          \cup {[resp |-> [Choices |-> <<>>], err |-> e] : e \in TransportErrs}

Answer(fn, reply) == [fn |-> fn, resp |-> reply.resp, err |-> reply.err]
NoAnswer == [fn |-> "", resp |-> [Choices |-> <<>>], err |-> NilErr]

\* Chunks of a streaming response: a list of choices, each with a delta.
Chunk(contents) == [Choices |-> [i \in 1..Len(contents) |-> [Delta |-> [Content |-> contents[i]]]]]
Chunks == {Chunk(<<>>), Chunk(<<"", "x">>), Chunk(<<"hello ">>), Chunk(<<"world">>)}
ZeroChunk == Chunk(<<>>)

(***************************************************************************)
(* newOpenAIClient.                                                         *)
(***************************************************************************)
\* The handle openai.NewClientWithConfig(cfg) returns; id is its identity.
NewClientWithConfig(id, authToken, baseURL) ==
    [id |-> id, BaseURL |-> baseURL, authToken |-> authToken]

\* Validate without the check of Model.
Validate_BaseURLOnly(cl) ==
    IF cl.BaseURL = "" THEN ErrBaseURLEmpty ELSE NilErr

\* Lines 44-49: the two field checks, in order.
Validate(cl) ==
    IF cl.BaseURL = "" THEN ErrBaseURLEmpty
    ELSE IF cl.Model = "" THEN ErrModelEmpty
    ELSE NilErr

\* BuildHandle appending the segment to a root that already carries it.
BuildHandle_AppendTwice(cl, id) ==
    NewClientWithConfig(id, cl.APIKey, (cl.BaseURL \o "/v1") \o "/v1")

\* Lines 51-55: derive the configuration and construct the handle.
BuildHandle(cl, id) == NewClientWithConfig(id, cl.APIKey, cl.BaseURL \o "/v1")

\* newOpenAIClient constructing and storing the handle before it validates
\* the fields, so that a failed validation leaves a handle behind.
newOpenAIClient_CachesBeforeValidate(cl, id) ==
    IF cl.oa # Nil
    THEN [c |-> cl, oa |-> cl.oa, err |-> NilErr, validated |-> 0, built |-> 0]
    ELSE LET h == <<BuildHandle(cl, id)>>
         IN IF Validate(cl) # NilErr
            THEN [c |-> [cl EXCEPT !.oa = h], oa |-> Nil, err |-> Validate(cl),
                  validated |-> 1, built |-> 1]
            ELSE [c |-> [cl EXCEPT !.oa = h], oa |-> h, err |-> NilErr,
                  validated |-> 1, built |-> 1]

\* newOpenAIClient without the test of c.oa at line 41: it validates and
\* constructs on every call.
newOpenAIClient_NoCache(cl, id) ==
    IF Validate(cl) # NilErr
    THEN [c |-> cl, oa |-> Nil, err |-> Validate(cl), validated |-> 1, built |-> 0]
    ELSE LET h == <<BuildHandle(cl, id)>>
         IN [c |-> [cl EXCEPT !.oa = h], oa |-> h, err |-> NilErr,
             validated |-> 1, built |-> 1]

\* The whole accessor, run without interruption: the Client afterwards, the
\* handle and error returned, and whether validation and construction ran.
newOpenAIClient(cl, id) ==
    IF cl.oa # Nil
    THEN [c |-> cl, oa |-> cl.oa, err |-> NilErr, validated |-> 0, built |-> 0]
    ELSE IF Validate(cl) # NilErr
    THEN [c |-> cl, oa |-> Nil, err |-> Validate(cl), validated |-> 1, built |-> 0]
    ELSE LET h == <<BuildHandle(cl, id)>>
         IN [c |-> [cl EXCEPT !.oa = h], oa |-> h, err |-> NilErr,
             validated |-> 1, built |-> 1]

(***************************************************************************)
(* Chat and ChatStream.                                                     *)
(***************************************************************************)
\* ToWire leaving out the messages whose content is empty.
RECURSIVE ToWire_SkipEmpty(_)
ToWire_SkipEmpty(messages) ==
    IF messages = <<>> THEN <<>>
    ELSE (IF Head(messages).Content = "" THEN <<>>
          ELSE <<[Role |-> Head(messages).Role, Content |-> Head(messages).Content]>>)
         \o ToWire_SkipEmpty(Tail(messages))

\* Lines 68-74 and 107-113: the request's messages in the transport's shape.
ToWire(messages) ==
    [i \in 1..Len(messages) |->
        [Role |-> messages[i].Role, Content |-> messages[i].Content]]

\* Lines 76-80 and 115-119: the request handed to the transport.
CompletionRequest(fn, cl, oa, messages, stream) ==
    [fn |-> fn, Model |-> cl.Model, Messages |-> ToWire(messages),
     Stream |-> stream, oa |-> oa]

NoRequest == [fn |-> "", Model |-> "", Messages |-> <<>>, Stream |-> FALSE, oa |-> Nil]

\* ChatResult reporting an empty response as a chat-call error.
ChatResult_NoChoicesAsChatErr(reply) ==
    IF reply.err # NilErr \/ Len(reply.resp.Choices) = 0
    THEN [op |-> "Chat", resp |-> Nil, stream |-> Nil,
          err |-> Errorf(ChatErrPrefix,
                         IF reply.err # NilErr THEN reply.err ELSE ErrNoChoices)]
    ELSE LET msg == reply.resp.Choices[1].Message
         IN [op |-> "Chat",
             resp |-> <<[Message |-> Message(msg.Role, msg.Content)]>>,
             stream |-> Nil, err |-> NilErr]

\* ChatResult returning the last choice instead of the first.
ChatResult_LastChoice(reply) ==
    IF reply.err # NilErr
    THEN [op |-> "Chat", resp |-> Nil, stream |-> Nil,
          err |-> Errorf(ChatErrPrefix, reply.err)]
    ELSE IF Len(reply.resp.Choices) = 0
    THEN [op |-> "Chat", resp |-> Nil, stream |-> Nil, err |-> ErrNoChoices]
    ELSE LET msg == reply.resp.Choices[Len(reply.resp.Choices)].Message
         IN [op |-> "Chat",
             resp |-> <<[Message |-> Message(msg.Role, msg.Content)]>>,
             stream |-> Nil, err |-> NilErr]

\* Lines 81-96: what Chat returns for the transport's reply.
ChatResult(reply) ==
    IF reply.err # NilErr
    THEN [op |-> "Chat", resp |-> Nil, stream |-> Nil,
          err |-> Errorf(ChatErrPrefix, reply.err)]
    ELSE IF Len(reply.resp.Choices) = 0
    THEN [op |-> "Chat", resp |-> Nil, stream |-> Nil, err |-> ErrNoChoices]
    ELSE LET msg == reply.resp.Choices[1].Message
         IN [op |-> "Chat",
             resp |-> <<[Message |-> Message(msg.Role, msg.Content)]>>,
             stream |-> Nil, err |-> NilErr]

\* ChatStreamResult without the early return at lines 120-122: the wrapper
\* is returned together with the error.
ChatStreamResult_CursorOnError(reply, id) ==
    [op |-> "ChatStream", resp |-> Nil, stream |-> <<id>>,
     err |-> IF reply.err # NilErr THEN Errorf(StreamErrPrefix, reply.err) ELSE NilErr]

\* Lines 120-124: what ChatStream returns for the transport's reply; id names
\* the streamWrapper it allocates.
ChatStreamResult(reply, id) ==
    IF reply.err # NilErr
    THEN [op |-> "ChatStream", resp |-> Nil, stream |-> Nil,
          err |-> Errorf(StreamErrPrefix, reply.err)]
    ELSE [op |-> "ChatStream", resp |-> Nil, stream |-> <<id>>, err |-> NilErr]

\* Lines 68-96: Chat once it holds the handle oa: one CreateChatCompletion
\* call, whose reply decides the result.  Neither the Client nor the request
\* is written.
\* ChatCall issuing the completion call a second time when the first one failed.
ChatCall_RetryOnError(cl, oa, req, reply) ==
    [c |-> cl, request |-> [Messages |-> req],
     sent |-> CompletionRequest("CreateChatCompletion", cl, oa, req, FALSE),
     answer |-> Answer("CreateChatCompletion", reply),
     calls |-> IF reply.err # NilErr THEN 2 ELSE 1,
     ret |-> ChatResult(reply)]

ChatCall(cl, oa, req, reply) ==
    [c       |-> cl,
     request |-> [Messages |-> req],
     sent    |-> CompletionRequest("CreateChatCompletion", cl, oa, req, FALSE),
     answer  |-> Answer("CreateChatCompletion", reply),
     calls   |-> 1,
     ret     |-> ChatResult(reply)]

\* Lines 107-124: ChatStream once it holds the handle oa: one
\* CreateChatCompletionStream call; id names the wrapper of line 124.
\* StreamCall discarding the cached handle when the stream cannot be opened.
StreamCall_DropHandleOnError(cl, oa, req, reply, id) ==
    [c |-> IF reply.err # NilErr THEN [cl EXCEPT !.oa = Nil] ELSE cl,
     request |-> [Messages |-> req],
     sent |-> CompletionRequest("CreateChatCompletionStream", cl, oa, req, TRUE),
     answer |-> Answer("CreateChatCompletionStream", reply),
     calls |-> 1, ret |-> ChatStreamResult(reply, id)]

StreamCall(cl, oa, req, reply, id) ==
    [c       |-> cl,
     request |-> [Messages |-> req],
     sent    |-> CompletionRequest("CreateChatCompletionStream", cl, oa, req, TRUE),
     answer  |-> Answer("CreateChatCompletionStream", reply),
     calls   |-> 1,
     ret     |-> ChatStreamResult(reply, id)]

\* Lines 64-66 and 103-105: the accessor's error is returned as it is.
ConfigFailure(op, err) == [op |-> op, resp |-> Nil, stream |-> Nil, err |-> err]

NoReturn == [op |-> "", resp |-> Nil, stream |-> Nil, err |-> NilErr]

(***************************************************************************)
(* streamWrapper.                                                           *)
(***************************************************************************)
\* Line 124: a fresh wrapper over the cursor the transport opened.
\*   events  what the underlying cursor's Recv returned, call by call
\*   out     what the wrapper's Recv returned, call by call
\*   closeCalls / closes  calls of the wrapper's Close / of the underlying Close
\*   afterClose  whether a Recv call came after a Close
NewStream == [events |-> <<>>, out |-> <<>>, closeCalls |-> 0, closes |-> 0,
              afterClose |-> FALSE]

\* The rest of Recv once err is nil (lines 155-171).
ChunkResult(chunk) ==
    IF Len(chunk.Choices) = 0
    THEN [resp |-> Nil, err |-> NilErr]
    ELSE LET delta == chunk.Choices[1].Delta
         IN IF delta.Content = ""
            THEN [resp |-> Nil, err |-> NilErr]
            ELSE [resp |-> <<[Message |-> Message(RoleAssistant, delta.Content)]>>,
                  err |-> NilErr]

\* RecvResult taking the delta of the last choice instead of the first.
RecvResult_LastChoice(chunk, err) ==
    IF err # NilErr
    THEN [resp |-> Nil, err |-> err]
    ELSE IF Len(chunk.Choices) = 0
    THEN [resp |-> Nil, err |-> NilErr]
    ELSE LET delta == chunk.Choices[Len(chunk.Choices)].Delta
         IN IF delta.Content = ""
            THEN [resp |-> Nil, err |-> NilErr]
            ELSE [resp |-> <<[Message |-> Message(RoleAssistant, delta.Content)]>>,
                  err |-> NilErr]

\* RecvResult ending the stream on a chunk without choices.
RecvResult_NoChoicesIsEOF(chunk, err) ==
    IF err # NilErr
    THEN [resp |-> Nil, err |-> err]
    ELSE IF Len(chunk.Choices) = 0
    THEN [resp |-> Nil, err |-> EOF]
    ELSE ChunkResult(chunk)

\* RecvResult testing errors.Is(err, io.EOF) instead of err == io.EOF.
RecvResult_ErrorsIsEOF(chunk, err) ==
    IF err # NilErr
    THEN IF \E i \in 1..Len(err) : err[i] = EOF[1]
         THEN [resp |-> Nil, err |-> EOF]
         ELSE [resp |-> Nil, err |-> err]
    ELSE ChunkResult(chunk)

\* Lines 146-172: what Recv returns for the (chunk, err) the underlying
\* cursor's Recv gave.
RecvResult(chunk, err) ==
    IF err # NilErr
    THEN IF err = EOF THEN [resp |-> Nil, err |-> EOF]
                      ELSE [resp |-> Nil, err |-> err]
    ELSE ChunkResult(chunk)

\* Line 147: the outcomes s.stream.Recv() can have after the given earlier
\* ones.  The server sends chunks and then the [DONE] sentinel; a finished
\* cursor keeps reporting io.EOF and a failed one keeps failing.
StreamEvents(events) ==
    LET n == Len(events)
    IN IF n > 0 /\ events[n].err = EOF
       THEN {[chunk |-> ZeroChunk, err |-> EOF]}
       ELSE IF n > 0 /\ events[n].err # NilErr
       THEN {[chunk |-> ZeroChunk, err |-> events[n].err]}
       ELSE {[chunk |-> ch, err |-> NilErr] : ch \in Chunks}
            \cup {[chunk |-> ZeroChunk, err |-> e] : e \in {EOF} \cup ReadErrs}

(***************************************************************************)
(* Initial state: a Client as a caller's struct literal leaves it, or as    *)
(* newTestClient builds it, with a handle injected for the same fields.     *)
(***************************************************************************)
Idle == [pc |-> "idle", op |-> "", req |-> <<>>, oa |-> Nil, ret |-> NoReturn]

Init ==
    /\ \E b \in BaseURLs, m \in Models, k \in APIKeys, inject \in BOOLEAN :
          /\ inject => (b # "" /\ m # "" /\ k # "")
          /\ c = [BaseURL |-> b, Model |-> m, APIKey |-> k,
                  oa |-> IF inject THEN <<NewClientWithConfig(0, k, b \o "/v1")>>
                                   ELSE Nil]
    /\ builds = 0
    /\ validations = 0
    /\ invocations = 0
    /\ ncalls = 0
    /\ request = [Messages |-> <<>>]
    /\ sent = NoRequest
    /\ answer = NoAnswer
    /\ ret = NoReturn
    /\ streams = <<>>
    /\ g = [p \in Procs |-> Idle]

(***************************************************************************)
(* Operations, each run without interruption (one caller at a time).        *)
(***************************************************************************)
\* The caller assigns an exported field of the Client.
SetBaseURL(v) ==
    /\ c.BaseURL # v
    /\ c' = [c EXCEPT !.BaseURL = v]
    /\ UNCHANGED <<builds, validations, invocations, ncalls, request, sent, answer, ret, streams, g>>

SetModel(v) ==
    /\ c.Model # v
    /\ c' = [c EXCEPT !.Model = v]
    /\ UNCHANGED <<builds, validations, invocations, ncalls, request, sent, answer, ret, streams, g>>

SetAPIKey(v) ==
    /\ c.APIKey # v
    /\ c' = [c EXCEPT !.APIKey = v]
    /\ UNCHANGED <<builds, validations, invocations, ncalls, request, sent, answer, ret, streams, g>>

Chat(req, reply) ==
    /\ invocations < MaxCalls
    /\ invocations' = invocations + 1
    /\ LET r == newOpenAIClient(c, builds + 1)
       IN /\ builds' = builds + r.built
          /\ validations' = validations + r.validated
          /\ IF r.err # NilErr
             THEN /\ c' = r.c
                  /\ request' = [Messages |-> req]
                  /\ ret' = ConfigFailure("Chat", r.err)
                  /\ answer' = NoAnswer
                  /\ UNCHANGED <<ncalls, sent>>
             ELSE LET call == ChatCall(r.c, r.oa, req, reply)
                  IN /\ c' = call.c
                     /\ request' = call.request
                     /\ sent' = call.sent
                     /\ answer' = call.answer
                     /\ ncalls' = ncalls + call.calls
                     /\ ret' = call.ret
    /\ UNCHANGED <<streams, g>>

ChatStream(req, reply) ==
    /\ invocations < MaxCalls
    /\ Len(streams) < MaxStreams
    /\ invocations' = invocations + 1
    /\ LET r == newOpenAIClient(c, builds + 1)
       IN /\ builds' = builds + r.built
          /\ validations' = validations + r.validated
          /\ IF r.err # NilErr
             THEN /\ c' = r.c
                  /\ request' = [Messages |-> req]
                  /\ ret' = ConfigFailure("ChatStream", r.err)
                  /\ answer' = NoAnswer
                  /\ UNCHANGED <<ncalls, sent, streams>>
             ELSE LET call == StreamCall(r.c, r.oa, req, reply, Len(streams) + 1)
                  IN /\ c' = call.c
                     /\ request' = call.request
                     /\ sent' = call.sent
                     /\ answer' = call.answer
                     /\ ncalls' = ncalls + call.calls
                     /\ ret' = call.ret
                     /\ streams' = IF call.ret.stream # Nil
                                   THEN Append(streams, NewStream)
                                   ELSE streams
    /\ UNCHANGED g

\* RecvStream skipping an empty chunk: it reads the underlying cursor again
\* inside the same pull (the second read finds the end of the stream).
RecvStream_SkipEmpty(st, ev) ==
    IF ev.err = NilErr /\ ChunkResult(ev.chunk).resp = Nil
    THEN [st EXCEPT !.events = @ \o <<ev, [chunk |-> ZeroChunk, err |-> EOF]>>,
                    !.out = Append(@, RecvResult(ZeroChunk, EOF)),
                    !.afterClose = (@ \/ st.closeCalls > 0)]
    ELSE [st EXCEPT !.events = Append(@, ev),
                    !.out = Append(@, RecvResult(ev.chunk, ev.err)),
                    !.afterClose = (@ \/ st.closeCalls > 0)]

\* RecvStream remembering end-of-stream: once io.EOF was returned, it
\* returns io.EOF without calling the underlying cursor.
RecvStream_StopAfterEOF(st, ev) ==
    IF \E i \in 1..Len(st.out) : st.out[i].err = EOF
    THEN [st EXCEPT !.out = Append(@, [resp |-> Nil, err |-> EOF]),
                    !.afterClose = (@ \/ st.closeCalls > 0)]
    ELSE [st EXCEPT !.events = Append(@, ev),
                    !.out = Append(@, RecvResult(ev.chunk, ev.err)),
                    !.afterClose = (@ \/ st.closeCalls > 0)]

\* Lines 146-172 on the wrapper st: one call of the underlying cursor's Recv,
\* whose outcome is ev, and the result computed from it.  The wrapper has
\* no field besides the cursor, so nothing else changes.
RecvStream(st, ev) ==
    [st EXCEPT !.events = Append(@, ev),
               !.out = Append(@, RecvResult(ev.chunk, ev.err)),
               !.afterClose = (@ \/ st.closeCalls > 0)]

RECURSIVE TotalPulls(_)
TotalPulls(ss) == IF ss = <<>> THEN 0 ELSE Len(Head(ss).out) + TotalPulls(Tail(ss))

RECURSIVE TotalCloses(_)
TotalCloses(ss) == IF ss = <<>> THEN 0 ELSE Head(ss).closeCalls + TotalCloses(Tail(ss))

\* One pull on cursor s; ev is what the underlying cursor's Recv returns.
Recv(s, ev) ==
    /\ s \in 1..Len(streams)
    /\ TotalPulls(streams) < MaxPulls
    /\ ev \in StreamEvents(streams[s].events)
    /\ streams' = [streams EXCEPT ![s] = RecvStream(@, ev)]
    /\ UNCHANGED <<c, builds, validations, invocations, ncalls, request, sent, answer, ret, g>>

\* CloseStream forwarding only the first Close.
CloseStream_Once(st) ==
    [st EXCEPT !.closeCalls = @ + 1, !.closes = IF @ = 0 THEN 1 ELSE @]

\* CloseStream returning without calling the underlying cursor's Close.
CloseStream_NoForward(st) == [st EXCEPT !.closeCalls = @ + 1]

\* Lines 175-177: Close forwards to the underlying cursor's Close.
CloseStream(st) == [st EXCEPT !.closeCalls = @ + 1, !.closes = @ + 1]

Close(s) ==
    /\ s \in 1..Len(streams)
    /\ TotalCloses(streams) < MaxCloses
    /\ streams' = [streams EXCEPT ![s] = CloseStream(@)]
    /\ UNCHANGED <<c, builds, validations, invocations, ncalls, request, sent, answer, ret, g>>

AllEvents == {[chunk |-> ch, err |-> NilErr] : ch \in Chunks}
             \cup {[chunk |-> ZeroChunk, err |-> e] : e \in {EOF} \cup ReadErrs}

\* One caller using the Client: field assignments and calls, one at a time.
Next ==
    \/ \E v \in BaseURLs : SetBaseURL(v)
    \/ \E v \in Models : SetModel(v)
    \/ \E v \in APIKeys : SetAPIKey(v)
    \/ \E req \in Requests, reply \in ChatReplies : Chat(req, reply)
    \/ \E req \in Requests, reply \in OpenReplies : ChatStream(req, reply)

Spec == Init /\ [][Next]_vars

\* The Client of the example program: all three fields set, no handle yet.
InitMain ==
    /\ Init
    /\ c = [BaseURL |-> "http://localhost:8001", Model |-> "mistral",
            APIKey |-> "dummy", oa |-> Nil]

\* One caller driving cursors: open, pull, close, in any order.
StreamRequest == <<Message(RoleUser, "stream please")>>

NextStream ==
    \/ \E reply \in OpenReplies : ChatStream(StreamRequest, reply)
    \/ \E s \in 1..MaxStreams, ev \in AllEvents : Recv(s, ev)
    \/ \E s \in 1..MaxStreams : Close(s)

SpecStream == InitMain /\ [][NextStream]_vars

(***************************************************************************)
(* The same calls made by several goroutines on one Client.  Nothing in     *)
(* newOpenAIClient orders its reads and its write of c.oa against another   *)
(* goroutine's, so a call is a sequence of steps, each reading or writing   *)
(* the shared Client once:                                                  *)
(*   "cache"     line 41-43, the test of c.oa and the cached return         *)
(*   "validate"  lines 44-49                                                *)
(*   "build"     lines 51-55, the construction and the store to c.oa        *)
(*   "return"    line 56, the load of c.oa that is returned                 *)
(*   "issue"     the rest of Chat / ChatStream                              *)
(***************************************************************************)
GoCall(p, op, req) ==
    /\ g[p].pc = "idle"
    /\ invocations < MaxCalls
    /\ invocations' = invocations + 1
    /\ g' = [g EXCEPT ![p] = [pc |-> "cache", op |-> op, req |-> req, oa |-> Nil,
                              ret |-> NoReturn]]
    /\ UNCHANGED <<c, builds, validations, ncalls, request, sent, answer, ret, streams>>

GoCheckCache(p) ==
    /\ g[p].pc = "cache"
    /\ g' = IF c.oa # Nil
            THEN [g EXCEPT ![p].oa = c.oa, ![p].pc = "issue"]
            ELSE [g EXCEPT ![p].pc = "validate"]
    /\ UNCHANGED <<c, builds, validations, invocations, ncalls, request, sent, answer, ret, streams>>

GoValidate(p) ==
    /\ g[p].pc = "validate"
    /\ validations' = validations + 1
    /\ IF Validate(c) # NilErr
       THEN /\ g' = [g EXCEPT ![p].pc = "idle",
                              ![p].ret = ConfigFailure(g[p].op, Validate(c))]
            /\ ret' = ConfigFailure(g[p].op, Validate(c))
            /\ answer' = NoAnswer
            /\ request' = [Messages |-> g[p].req]
       ELSE /\ g' = [g EXCEPT ![p].pc = "build"]
            /\ UNCHANGED <<ret, answer, request>>
    /\ UNCHANGED <<c, builds, invocations, ncalls, sent, streams>>

GoBuild(p) ==
    /\ g[p].pc = "build"
    /\ c' = [c EXCEPT !.oa = <<BuildHandle(c, builds + 1)>>]
    /\ builds' = builds + 1
    /\ g' = [g EXCEPT ![p].pc = "return"]
    /\ UNCHANGED <<validations, invocations, ncalls, request, sent, answer, ret, streams>>

GoReturn(p) ==
    /\ g[p].pc = "return"
    /\ g' = [g EXCEPT ![p].oa = c.oa, ![p].pc = "issue"]
    /\ UNCHANGED <<c, builds, validations, invocations, ncalls, request, sent, answer, ret, streams>>

GoIssueChat(p, reply) ==
    /\ g[p].pc = "issue"
    /\ g[p].op = "Chat"
    /\ LET call == ChatCall(c, g[p].oa, g[p].req, reply)
       IN /\ c' = call.c
          /\ request' = call.request
          /\ sent' = call.sent
          /\ answer' = call.answer
          /\ ncalls' = ncalls + call.calls
          /\ ret' = call.ret
          /\ g' = [g EXCEPT ![p].pc = "idle", ![p].ret = call.ret]
    /\ UNCHANGED <<builds, validations, invocations, streams>>

GoIssueChatStream(p, reply) ==
    /\ g[p].pc = "issue"
    /\ g[p].op = "ChatStream"
    /\ Len(streams) < MaxStreams
    /\ LET call == StreamCall(c, g[p].oa, g[p].req, reply, Len(streams) + 1)
       IN /\ c' = call.c
          /\ request' = call.request
          /\ sent' = call.sent
          /\ answer' = call.answer
          /\ ncalls' = ncalls + call.calls
          /\ ret' = call.ret
          /\ g' = [g EXCEPT ![p].pc = "idle", ![p].ret = call.ret]
          /\ streams' = IF call.ret.stream # Nil
                        THEN Append(streams, NewStream)
                        ELSE streams
    /\ UNCHANGED <<builds, validations, invocations>>

NextConc ==
    \/ \E p \in Procs, op \in {"Chat", "ChatStream"} : GoCall(p, op, StreamRequest)
    \/ \E p \in Procs : GoCheckCache(p)
    \/ \E p \in Procs : GoValidate(p)
    \/ \E p \in Procs : GoBuild(p)
    \/ \E p \in Procs : GoReturn(p)
    \/ \E p \in Procs, reply \in ChatReplies : GoIssueChat(p, reply)
    \/ \E p \in Procs, reply \in OpenReplies : GoIssueChatStream(p, reply)

SpecConc == Init /\ [][NextConc]_vars

(***************************************************************************)
(* Properties.                                                              *)
(***************************************************************************)
ConfigErrs == {ErrBaseURLEmpty, ErrModelEmpty}
Invoked == invocations' = invocations + 1     \* this step is a Chat / ChatStream call
Issued  == ncalls' = ncalls + 1               \* this step hands a request to the transport

\* C1: over any sequence of Chat and ChatStream calls by one caller, the
\* transport handle is constructed at most once: a call on a Client with
\* non-empty BaseURL and Model and no handle constructs one, caches it and
\* uses it; every call on a Client that holds a handle uses that handle,
\* constructs nothing, validates nothing and leaves the handle in place.
C1_HandleBuiltOnce ==
    [][/\ builds' <= 1
       /\ (Invoked /\ c.oa = Nil /\ c.BaseURL # "" /\ c.Model # "")
             => /\ builds' = builds + 1
                /\ c'.oa # Nil
                /\ Issued /\ sent'.oa = c'.oa
       /\ (Invoked /\ c.oa # Nil)
             => /\ builds' = builds
                /\ validations' = validations
                /\ c'.oa = c.oa
                /\ Issued /\ sent'.oa = c.oa
       /\ c.oa # Nil => c'.oa = c.oa]_vars

\* C1 witness: three calls were made, the first one constructed the handle
\* and all of them were issued through it.
C1_Witness ==
    /\ builds = 1 /\ validations = 1
    /\ invocations = 3 /\ ncalls = 3
    /\ c.oa # Nil /\ sent.oa = c.oa

\* C2 as stated: every invocation made while BaseURL or Model is empty fails
\* with a configuration error and issues nothing, and nothing is ever issued
\* to the transport while BaseURL or Model is empty.
C2_EmptyFieldAlwaysFails ==
    [][/\ (Invoked /\ (c.BaseURL = "" \/ c.Model = ""))
             => (ret'.err \in ConfigErrs /\ ~Issued)
       /\ Issued => (c.BaseURL # "" /\ c.Model # "")]_vars

\* C2, amended: every invocation made while no handle is cached and BaseURL
\* or Model is empty fails with the configuration error of the first empty
\* field, returns no response and no cursor, issues nothing to the transport
\* and caches nothing; a request is issued while a field is empty only
\* through a handle that was cached before.
C2_EmptyFieldFailsUnlessCached ==
    [][/\ (Invoked /\ c.oa = Nil /\ (c.BaseURL = "" \/ c.Model = ""))
             => /\ ret'.err = (IF c.BaseURL = "" THEN ErrBaseURLEmpty
                                                ELSE ErrModelEmpty)
                /\ ret'.resp = Nil /\ ret'.stream = Nil
                /\ ~Issued /\ sent' = sent
                /\ c' = c /\ streams' = streams
       /\ (Issued /\ (c.BaseURL = "" \/ c.Model = "")) => (c.oa # Nil /\ sent'.oa = c.oa)]_vars

\* C2 witness: a call failed on the empty Model, with nothing issued.
C2_Witness ==
    /\ invocations > 0 /\ ncalls = 0
    /\ c.BaseURL # "" /\ c.Model = "" /\ c.oa = Nil
    /\ ret.err = ErrModelEmpty /\ ret.resp = Nil /\ ret.stream = Nil

\* C3: when calls run concurrently on a Client whose handle has not been
\* built, exactly one handle is constructed and all calls use that handle.
C3_OneHandleUnderConcurrency ==
    /\ builds <= 1
    /\ \A p, q \in Procs :
          (g[p].oa # Nil /\ g[q].oa # Nil) => g[p].oa = g[q].oa

(***************************************************************************)
(* Properties of the cursor.  The outcome of a pull is named after what     *)
(* Recv returned; what the chunks call for is stated from the chunks.       *)
(***************************************************************************)
Streams == 1..Len(streams)

\* The underlying read gave a chunk whose first choice has content.
HasContent(ev) ==
    /\ ev.err = NilErr
    /\ Len(ev.chunk.Choices) > 0
    /\ ev.chunk.Choices[1].Delta.Content # ""

\* The underlying read gave a chunk with no choices or an empty first delta.
NoContent(ev) == ev.err = NilErr /\ ~HasContent(ev)

IsDelta(r) == r.resp # Nil /\ r.err = NilErr
IsEmpty(r) == r.resp = Nil /\ r.err = NilErr
IsDone(r)  == r.resp = Nil /\ r.err = EOF
IsError(r) == r.resp = Nil /\ r.err # NilErr /\ r.err # EOF

\* The contents of the deltas among the results, in order.
RECURSIVE DeltaContents(_)
DeltaContents(out) ==
    IF out = <<>> THEN <<>>
    ELSE (IF Head(out).resp # Nil THEN <<Head(out).resp[1].Message.Content>> ELSE <<>>)
         \o DeltaContents(Tail(out))

\* The first-choice contents of the chunks that have one, in order.
RECURSIVE ChunkContents(_)
ChunkContents(events) ==
    IF events = <<>> THEN <<>>
    ELSE (IF HasContent(Head(events))
          THEN <<Head(events).chunk.Choices[1].Delta.Content>> ELSE <<>>)
         \o ChunkContents(Tail(events))

RECURSIVE Concat(_)
Concat(strs) == IF strs = <<>> THEN "" ELSE Head(strs) \o Concat(Tail(strs))

\* What the pull that made read ev must return for the pull after an EMPTY one.
Follows(r, ev) ==
    IF ev.err = EOF THEN IsDone(r)
    ELSE IF ev.err # NilErr THEN IsError(r)
    ELSE IF HasContent(ev)
    THEN IsDelta(r) /\ r.resp[1].Message.Content = ev.chunk.Choices[1].Delta.Content
    ELSE IsEmpty(r)

\* C4: over the chunks a cursor has read, the pulls returned one delta for
\* each chunk whose first choice has non-empty content and for no other, in
\* chunk order and with that content, so that the deltas concatenate to the
\* concatenation of those contents; the pull that read the end of the stream
\* returned io.EOF with no response, and no other pull returned io.EOF.
C4_DeltasInOrderThenEOF ==
    \A s \in Streams :
        LET st == streams[s]
        IN /\ Len(st.out) = Len(st.events)
           /\ DeltaContents(st.out) = ChunkContents(st.events)
           /\ Concat(DeltaContents(st.out)) = Concat(ChunkContents(st.events))
           /\ \A i \in 1..Len(st.out) :
                 /\ IsDelta(st.out[i]) <=> HasContent(st.events[i])
                 /\ IsDone(st.out[i]) <=> st.events[i].err = EOF
                 /\ st.out[i].resp # Nil => st.out[i].err = NilErr

\* C4 witness: the chunks "hello " and "world" and the end of the stream were
\* pulled: two deltas that concatenate to "hello world", then io.EOF.
C4_Witness ==
    \E s \in Streams :
        LET st == streams[s]
        IN /\ Len(st.out) = 3
           /\ st.events[1].chunk = Chunk(<<"hello ">>) /\ st.events[1].err = NilErr
           /\ st.events[2].chunk = Chunk(<<"world">>) /\ st.events[2].err = NilErr
           /\ st.events[3].err = EOF
           /\ DeltaContents(st.out) = <<"hello ", "world">>
           /\ Concat(DeltaContents(st.out)) = "hello world"
           /\ IsDelta(st.out[1]) /\ IsDelta(st.out[2]) /\ IsDone(st.out[3])

\* C5: a pull that read a chunk with zero choices, or one whose first choice
\* has empty content, returned (nil, nil); the stream goes on: the pull after
\* it read once more and returned what that read calls for (a delta, EMPTY,
\* io.EOF or the error), and while pulls remain the next pull can take any
\* outcome the underlying cursor has.
C5_EmptyDoesNotTerminate ==
    \A s \in Streams :
        LET st == streams[s]
        IN \A i \in 1..Len(st.events) :
              NoContent(st.events[i])
                => /\ i <= Len(st.out) /\ IsEmpty(st.out[i])
                   /\ i < Len(st.events)
                        => (Len(st.out) > i /\ Follows(st.out[i + 1], st.events[i + 1]))
                   /\ (i = Len(st.events) /\ TotalPulls(streams) < MaxPulls)
                        => \A ev \in AllEvents : ENABLED Recv(s, ev)

\* C5 witness: a chunk without choices and a chunk with an empty first delta
\* were pulled as EMPTY, and the pull after them returned a delta.
C5_Witness ==
    \E s \in Streams :
        LET st == streams[s]
        IN /\ Len(st.out) = 3
           /\ st.events[1] = [chunk |-> Chunk(<<>>), err |-> NilErr]
           /\ st.events[2] = [chunk |-> Chunk(<<"", "x">>), err |-> NilErr]
           /\ IsEmpty(st.out[1]) /\ IsEmpty(st.out[2])
           /\ IsDelta(st.out[3]) /\ st.closes = 0

EOFReturned(st) == \E i \in 1..Len(st.out) : st.out[i].err = EOF
Last(seq) == seq[Len(seq)]

\* C6 as stated: once a pull on a cursor has returned io.EOF, no later step
\* performs another read on its underlying cursor.
C6_NoReadAfterEOF ==
    [][\A s \in Streams :
          EOFReturned(streams[s])
            => Len(streams'[s].events) = Len(streams[s].events)]_vars

\* C6, amended: every pull, a pull after io.EOF was returned included, reads
\* the underlying cursor exactly once, and returns io.EOF (with no response)
\* exactly when that read reports io.EOF; nothing but a pull reads the
\* underlying cursor.
C6_OneReadPerPullAlsoAfterEOF ==
    [][\A s \in Streams :
          LET a == streams[s]
              b == streams'[s]
          IN IF Len(b.out) = Len(a.out) + 1
             THEN /\ Len(b.events) = Len(a.events) + 1
                  /\ IsDone(Last(b.out)) <=> Last(b.events).err = EOF
                  /\ Last(b.out).err = EOF => Last(b.out).resp = Nil
             ELSE b.out = a.out /\ b.events = a.events]_vars

\* C6 witness: a pull returned io.EOF and the next pull read the underlying
\* cursor again.
C6_Witness ==
    \E s \in Streams :
        LET st == streams[s]
        IN /\ Len(st.out) >= 2
           /\ IsDone(st.out[Len(st.out) - 1])
           /\ IsDone(Last(st.out))
           /\ Len(st.events) = Len(st.out)

\* C7 as stated: the underlying close is invoked once if Close was called at
\* least once, and never more than once.
C7_ReleasedExactlyOnce ==
    \A s \in Streams :
        /\ streams[s].closes <= 1
        /\ streams[s].closeCalls >= 1 => streams[s].closes = 1

\* C7, amended: every Close call on a cursor invokes the underlying close
\* exactly once and a pull never invokes it, so the underlying close was
\* invoked as often as Close was called: never before the first Close, once
\* after one Close (whatever was pulled before), again on every further Close.
C7_OneReleasePerClose ==
    [][\A s \in Streams :
          LET a == streams[s]
              b == streams'[s]
          IN /\ a.closes = a.closeCalls
             /\ b.closes = b.closeCalls
             /\ b.closeCalls \in {a.closeCalls, a.closeCalls + 1}
             /\ b.out # a.out => b.closes = a.closes]_vars

\* C7 witness: a cursor was pulled to the end of its stream and closed twice.
C7_Witness ==
    \E s \in Streams :
        /\ streams[s].closeCalls = 2 /\ streams[s].closes = 2
        /\ EOFReturned(streams[s])

\* C8: a pull whose underlying read reported an error other than io.EOF
\* returned exactly that error, with its chain, and no response; what it
\* returned is not io.EOF, not EMPTY and not a delta.
C8_ReadErrorVerbatim ==
    \A s \in Streams :
        LET st == streams[s]
        IN \A i \in 1..Len(st.events) :
              (st.events[i].err # NilErr /\ st.events[i].err # EOF)
                => /\ i <= Len(st.out)
                   /\ st.out[i].err = st.events[i].err
                   /\ st.out[i].resp = Nil
                   /\ st.out[i].err # EOF /\ st.out[i].err # NilErr

\* C8 witness: after a delta, a read failed with an error that wraps io.EOF
\* and the pull returned that error.
C8_Witness ==
    \E s \in Streams :
        LET st == streams[s]
        IN /\ Len(st.out) >= 2
           /\ IsDelta(st.out[1])
           /\ st.events[2].err = <<"read body: EOF", "EOF">>
           /\ st.out[2] = [resp |-> Nil, err |-> <<"read body: EOF", "EOF">>]

(***************************************************************************)
(* Properties of Chat and ChatStream.                                       *)
(***************************************************************************)
\* C9: when the transport fails to open the stream, ChatStream returns the
\* stream-open error, whose message is "vllm stream error: " followed by the
\* cause's and which unwraps to the cause, and returns no cursor; a cursor is
\* returned exactly when the error is nil, and a call that returns an error
\* creates no cursor.
C9_NoCursorOnOpenFailure ==
    [][(Invoked /\ ret'.op = "ChatStream")
          => /\ ret'.stream # Nil <=> ret'.err = NilErr
             /\ (Issued /\ answer'.err # NilErr)
                   => /\ ret'.err[1] = "vllm stream error: " \o answer'.err[1]
                      /\ Unwrap(ret'.err) = answer'.err
                      /\ ret'.stream = Nil
             /\ ret'.err # NilErr => streams' = streams
             /\ ret'.err = NilErr
                   => /\ Len(streams') = Len(streams) + 1
                      /\ ret'.stream = <<Len(streams')>>]_vars

\* C9 witness: the transport refused to open a stream and ChatStream
\* returned the wrapped error and no cursor.
C9_Witness ==
    /\ ret.op = "ChatStream"
    /\ answer.fn = "CreateChatCompletionStream"
    /\ answer.err = <<"status 500">>
    /\ ret.err = <<"vllm stream error: status 500", "status 500">>
    /\ ret.stream = Nil
    /\ streams = <<>>

\* C10: Chat on a transport response with zero choices returns no response
\* and the no-choices error, which wraps nothing and is none of the chat-call
\* errors; Chat on a transport failure returns the chat-call error wrapping
\* the cause, which is not the no-choices error.
C10_NoChoicesIsItsOwnError ==
    (ret.op = "Chat" /\ answer.fn = "CreateChatCompletion")
      => /\ (answer.err = NilErr /\ Len(answer.resp.Choices) = 0)
               => /\ ret.resp = Nil
                  /\ ret.err = <<"vllm: no choices in response">>
                  /\ Unwrap(ret.err) = NilErr
                  /\ \A e \in TransportErrs : ret.err # <<"vllm chat error: " \o e[1]>> \o e
         /\ answer.err # NilErr
               => /\ ret.resp = Nil
                  /\ ret.err = <<"vllm chat error: " \o answer.err[1]>> \o answer.err
                  /\ ret.err # <<"vllm: no choices in response">>

\* C10 witness: the transport answered without choices and Chat returned the
\* no-choices error.
C10_Witness ==
    /\ ret.op = "Chat"
    /\ answer.fn = "CreateChatCompletion"
    /\ answer.err = NilErr /\ answer.resp.Choices = <<>>
    /\ ret.resp = Nil
    /\ ret.err = <<"vllm: no choices in response">>

\* C11: Chat on a transport response without error and with at least one
\* choice returns no error and a response whose role and content are those of
\* the first choice; so two responses with the same first choice give the
\* same result, whatever their later choices are.
C11_FirstChoiceOnly ==
    (ret.op = "Chat" /\ answer.fn = "CreateChatCompletion"
       /\ answer.err = NilErr /\ Len(answer.resp.Choices) >= 1)
      => /\ ret.err = NilErr
         /\ ret.stream = Nil
         /\ Len(ret.resp) = 1
         /\ ret.resp[1].Message.Role = answer.resp.Choices[1].Message.Role
         /\ ret.resp[1].Message.Content = answer.resp.Choices[1].Message.Content
         /\ \A ch \in ChoiceLists :
               (Len(ch) >= 1 /\ ch[1] = answer.resp.Choices[1])
                 => ChatResult([resp |-> [Choices |-> ch], err |-> NilErr]) = ret

\* C11 witness: the transport answered with two choices that differ in role
\* and content, and Chat returned the first.
C11_Witness ==
    /\ ret.op = "Chat"
    /\ answer.fn = "CreateChatCompletion" /\ answer.err = NilErr
    /\ answer.resp.Choices = Choices(<<Message(RoleUser, ""),
                                       Message(RoleAssistant, "hello from vllm")>>)
    /\ ret.err = NilErr
    /\ ret.resp = <<[Message |-> Message(RoleUser, "")]>>

\* C12: every request for the transport (every call) leaves BaseURL as it
\* is; a call that constructs the handle binds the root BaseURL \o "/v1", the
\* segment appended once and not twice; a call on a Client that holds a
\* handle leaves the handle, and so its root, as it is and issues through
\* it; every cached root is a base endpoint followed by a single "/v1".
C12_RootAppendedOnce ==
    [][Invoked
         => /\ c'.BaseURL = c.BaseURL
            /\ (c.oa = Nil /\ c.BaseURL # "" /\ c.Model # "")
                  => /\ c'.oa # Nil
                     /\ c'.oa[1].BaseURL = c.BaseURL \o "/v1"
                     /\ c'.oa[1].BaseURL # c.BaseURL \o "/v1/v1"
                     /\ sent'.oa = c'.oa
            /\ c.oa # Nil
                  => /\ c'.oa = c.oa
                     /\ sent'.oa[1].BaseURL = c.oa[1].BaseURL
            /\ c'.oa # Nil
                  => c'.oa[1].BaseURL \in {b \o "/v1" : b \in BaseURLs \ {""}}]_vars

\* C12 witness: the transport was requested three times on one valid
\* configuration and the cached root is its BaseURL with one "/v1".
C12_Witness ==
    /\ invocations = 3 /\ ncalls = 3 /\ builds = 1
    /\ c.BaseURL = "http://vllm:8000"
    /\ c.oa # Nil /\ c.oa[1].BaseURL = "http://vllm:8000/v1"
    /\ sent.oa = c.oa

\* C13: the messages a call hands to the transport, by Chat and by
\* ChatStream alike, are as many as the request's and have, position by
\* position, the request's role and content; the request the call leaves
\* behind is one of the requests callers pass, the empty one included.
C13_MessagesForwardedAsIs ==
    [][(Invoked /\ Issued)
         => /\ request' \in {[Messages |-> m] : m \in Requests \cup {StreamRequest}}
            /\ Len(sent'.Messages) = Len(request'.Messages)
            /\ \A i \in 1..Len(request'.Messages) :
                  /\ sent'.Messages[i].Role = request'.Messages[i].Role
                  /\ sent'.Messages[i].Content = request'.Messages[i].Content
            /\ sent'.Stream = (ret'.op = "ChatStream")
            /\ sent'.Model = c.Model]_vars

\* C13 witness: ChatStream handed over a two-message request whose first
\* message has empty content, in the request's order.
C13_Witness ==
    /\ ret.op = "ChatStream" /\ sent.fn = "CreateChatCompletionStream"
    /\ request.Messages = <<Message(RoleAssistant, ""), Message(RoleUser, "hi")>>
    /\ sent.Messages = <<[Role |-> "assistant", Content |-> ""],
                         [Role |-> "user", Content |-> "hi"]>>

\* C14: over repeated open / pull / close cycles on one Client, a cursor on
\* which Close was called has had its underlying connection released; a pull
\* or a close on a cursor, a pull after its close included, changes nothing
\* of the Client (fields and cached handle) and nothing of what the Client
\* counts among its calls; and with the handle still cached, a new stream
\* can be opened whenever calls and cursors remain.
C14_CloseReleasesAndClientUntouched ==
    /\ [](/\ \A s \in Streams : streams[s].closeCalls >= 1 => streams[s].closes >= 1
          /\ streams # <<>> => c.oa # Nil
          /\ (invocations < MaxCalls /\ Len(streams) < MaxStreams)
                => ENABLED (/\ ChatStream(StreamRequest,
                                          [resp |-> [Choices |-> <<>>], err |-> NilErr])
                            /\ Len(streams') = Len(streams) + 1))
    /\ [][(\E s \in Streams : streams'[s] # streams[s])
            => /\ c' = c
               /\ builds' = builds /\ validations' = validations
               /\ ncalls' = ncalls /\ sent' = sent]_vars

\* C14 witness: a first cursor was closed and pulled after its close, and a
\* second cursor of the same Client delivered a delta and was closed too.
C14_Witness ==
    /\ Len(streams) = 2
    /\ streams[1].closeCalls = 1 /\ streams[1].closes = 1
    /\ streams[1].afterClose
    /\ streams[2].closeCalls = 1 /\ streams[2].closes = 1
    /\ \E i \in 1..Len(streams[2].out) : IsDelta(streams[2].out[i])
    /\ c.oa # Nil /\ builds = 1

\* C15: every invocation of Chat hands at most one non-streaming completion
\* call to the transport and every invocation of ChatStream at most one
\* stream-open call, also when the call fails (no retry); nothing but an
\* invocation issues a call; and the failure of the call, or a reply without
\* choices, is returned by the very invocation that issued it, the transport's
\* error being the cause wrapped in the returned one.
C15_AtMostOneCallNoRetry ==
    [][/\ Invoked => (ncalls' = ncalls \/ ncalls' = ncalls + 1)
       /\ ~Invoked => ncalls' = ncalls
       /\ (Invoked /\ ret'.err \in ConfigErrs) => ncalls' = ncalls
       /\ (Invoked /\ ncalls' # ncalls)
            => /\ sent'.fn = (IF ret'.op = "Chat" THEN "CreateChatCompletion"
                                                 ELSE "CreateChatCompletionStream")
               /\ sent'.Stream = (ret'.op = "ChatStream")
               /\ answer'.fn = sent'.fn
               /\ answer'.err # NilErr
                    => /\ ret'.err # NilErr
                       /\ Unwrap(ret'.err) = answer'.err
                       /\ ret'.resp = Nil /\ ret'.stream = Nil
               /\ (answer'.err = NilErr /\ ret'.op = "Chat"
                     /\ Len(answer'.resp.Choices) = 0)
                    => ret'.err = ErrNoChoices]_vars

\* C15 witness: three invocations, the last a Chat whose one completion call
\* failed and returned the wrapped failure; one call per invocation in all.
C15_Witness ==
    /\ invocations = 3 /\ ncalls = 3
    /\ ret.op = "Chat" /\ answer.fn = "CreateChatCompletion"
    /\ answer.err \in TransportErrs
    /\ ret.err = Errorf(ChatErrPrefix, answer.err)

\* The four outcomes of a pull, as a tag.
Outcome(r) ==
    IF r.resp # Nil /\ r.err = NilErr THEN "DELTA"
    ELSE IF r.resp = Nil /\ r.err = NilErr THEN "EMPTY"
    ELSE IF r.resp = Nil /\ r.err = EOF THEN "DONE"
    ELSE IF r.resp = Nil THEN "ERROR"
    ELSE "BOTH"

\* C16: every pull reads the underlying cursor exactly once, an empty chunk
\* included, and returns exactly one of four outcomes fixed by that read
\* alone: DELTA (response, nil error) exactly when the chunk has a choice
\* whose first content is non-empty, with role "assistant" and that content
\* unmodified; EMPTY (nil, nil) exactly when the read gave a chunk without
\* such content; DONE (nil, io.EOF) exactly when the read gave io.EOF; ERROR
\* (nil, err) exactly when the read gave another error, which is err.  A
\* response and an error are never both non-nil.
C16_OneReadOneOutcome ==
    [][\A s \in Streams :
          LET a == streams[s]
              b == streams'[s]
          IN Len(b.out) # Len(a.out)
               => /\ Len(b.out) = Len(a.out) + 1
                  /\ b.events = Append(a.events, Last(b.events))
                  /\ LET ev == Last(b.events)
                         r  == Last(b.out)
                     IN /\ ~(r.resp # Nil /\ r.err # NilErr)
                        /\ Outcome(r) \in {"DELTA", "EMPTY", "DONE", "ERROR"}
                        /\ Outcome(r) = "DELTA" <=> HasContent(ev)
                        /\ Outcome(r) = "EMPTY" <=> NoContent(ev)
                        /\ Outcome(r) = "DONE" <=> ev.err = EOF
                        /\ Outcome(r) = "ERROR" <=> (ev.err # NilErr /\ ev.err # EOF)
                        /\ Outcome(r) = "ERROR" => r.err = ev.err
                        /\ Outcome(r) = "DELTA"
                             => /\ Len(r.resp) = 1
                                /\ r.resp[1].Message.Role = "assistant"
                                /\ r.resp[1].Message.Content
                                     = ev.chunk.Choices[1].Delta.Content]_vars

\* C16 witness: one cursor pulled three times with three reads: an EMPTY
\* pull on a chunk of two choices whose first content is empty, a DELTA pull,
\* and a pull that ended with DONE or ERROR.
C16_Witness ==
    \E s \in Streams :
        LET st == streams[s]
        IN /\ Len(st.out) = 3 /\ Len(st.events) = 3
           /\ Outcome(st.out[1]) = "EMPTY" /\ Len(st.events[1].chunk.Choices) = 2
           /\ Outcome(st.out[2]) = "DELTA"
           /\ Outcome(st.out[3]) \in {"DONE", "ERROR"}

\* The last call reached the transport and failed there or on its reply.
CallFailed == ret.err # NilErr /\ ret.err \notin ConfigErrs

\* A Chat that reuses the cached handle, builds none, and succeeds.
ChatReusesAndSucceeds ==
    \E req \in Requests, reply \in ChatReplies :
        /\ Chat(req, reply)
        /\ ret'.err = NilErr /\ ret'.resp # Nil
        /\ sent'.oa = c.oa /\ c' = c /\ builds' = builds

\* C17: a call that fails at the transport (chat-call error, reply without
\* choices, stream-open error) leaves the configuration fields as they were
\* and the handle it used cached: a handle that was cached before is the same
\* after; every call made with a handle cached sends its request on that
\* handle, builds no other and leaves the Client as it was; and after a
\* failed call a following Chat can succeed on the same handle.
C17_FailureKeepsHandle ==
    /\ [](CallFailed => /\ c.oa # Nil
                        /\ invocations < MaxCalls => ENABLED ChatReusesAndSucceeds)
    /\ [][/\ (Invoked /\ Issued /\ ret'.err # NilErr)
               => /\ c'.BaseURL = c.BaseURL /\ c'.Model = c.Model
                  /\ c'.APIKey = c.APIKey
                  /\ c'.oa # Nil /\ c'.oa = sent'.oa
                  /\ c.oa # Nil => c'.oa = c.oa
          /\ (Invoked /\ c.oa # Nil)
               => /\ Issued /\ sent'.oa = c.oa
                  /\ c' = c /\ builds' = builds /\ validations' = validations]_vars

\* C17 witness: the first call built the handle, the second was a ChatStream
\* whose stream-open call failed, and the one handle is still cached and a
\* Chat on it can succeed.
C17_Witness ==
    /\ invocations = 2 /\ ncalls = 2 /\ builds = 1
    /\ ret.op = "ChatStream" /\ answer.err \in TransportErrs
    /\ ret.err = Errorf(StreamErrPrefix, answer.err)
    /\ c.oa # Nil /\ c.oa[1].id = 1 /\ sent.oa = c.oa
    /\ ENABLED ChatReusesAndSucceeds

\* C18: a call that fails with a configuration error leaves the Client as it
\* was, with no handle cached, builds nothing and sends nothing; and a call
\* on a Client with no handle cached whose BaseURL and Model are non-empty,
\* whatever failed before, builds the handle from the BaseURL and APIKey the
\* Client has at that call and hands its request to the transport on it.
C18_ConfigFailureNotRemembered ==
    /\ [](ret.err \in ConfigErrs => c.oa = Nil)
    /\ [][/\ (Invoked /\ ret'.err \in ConfigErrs)
               => /\ c' = c /\ c.oa = Nil
                  /\ (c.BaseURL = "" \/ c.Model = "")
                  /\ builds' = builds /\ ncalls' = ncalls
                  /\ sent' = sent /\ streams' = streams
          /\ (Invoked /\ c.oa = Nil /\ c.BaseURL # "" /\ c.Model # "")
               => /\ c'.oa = <<[id |-> builds + 1, BaseURL |-> c.BaseURL \o "/v1",
                                authToken |-> c.APIKey]>>
                  /\ c'.BaseURL = c.BaseURL /\ c'.Model = c.Model
                  /\ c'.APIKey = c.APIKey
                  /\ builds' = builds + 1
                  /\ Issued /\ sent'.oa = c'.oa /\ sent'.Model = c.Model
                  /\ ret'.err \notin ConfigErrs]_vars

\* C18 witness: two calls validated the fields, the first failing on them
\* (nothing built, nothing sent), the second, after the missing field was
\* set, building the one handle from the fields the Client then had and
\* succeeding on it.
C18_Witness ==
    /\ invocations = 2 /\ validations = 2 /\ builds = 1 /\ ncalls = 1
    /\ ret.err = NilErr
    /\ c.BaseURL = "http://vllm:8000" /\ c.APIKey = "dummy"
    /\ c.oa = <<[id |-> 1, BaseURL |-> "http://vllm:8000/v1", authToken |-> "dummy"]>>
    /\ sent.oa = c.oa

====
